---- MODULE Spec2Model ----
(***************************************************************************)
(* Model of the in-memory cache mocks of src/coap/api/logging.go (package  *)
(* mocks, lines 74-297): thingCacheMock, profileCacheMock, groupCacheMock.  *)
(*                                                                          *)
(* A Go string is a sequence of one-character strings, so that rKey and     *)
(* strings.Split are computed and not assumed.  A Go map[string]string is   *)
(* a set of <<key, value>> pairs, written and deleted as the map            *)
(* statements of the source do.                                            *)
(***************************************************************************)
EXTENDS Naturals, Sequences, FiniteSets

VARIABLES
    things,   \* thingCacheMock.things   : key      -> thing ID
    groups,   \* thingCacheMock.groups   : thing ID -> group ID
    pgroups,  \* profileCacheMock.groups : profile ID -> group ID
    orgs,     \* groupCacheMock.orgs     : group ID -> org ID
    roles,    \* groupCacheMock.roles    : rKey(group ID, member ID) -> role
    mu,       \* the sync.Mutex of each struct: TRUE when locked
    pc,       \* per caller: "idle", "lock" (blocked in mu.Lock) or "crit"
    op,       \* per caller: the call in progress
    last,     \* the call that returned most recently, with what it returned
    assigned, \* the role assignments as the callers made them: <<group ID,
              \* member ID>> -> role, a record kept beside the cache
    track,    \* a record of removals kept beside the cache: per keyed cache,
              \* whether its key was removed and no save of it has begun
              \* since; per caller, what that was when its lookup began
    view      \* a record of a composed lookup kept beside the cache: the
              \* results it has so far, every content the maps have had,
              \* and how far its writer is

maps == <<things, groups, pgroups, orgs, roles>>
vars == <<things, groups, pgroups, orgs, roles, mu, pc, op, last, assigned,
          track, view>>

----------------------------------------------------------------------------
(* Identifiers.  All of them are strings the caller chooses.               *)

Sep == ":"

K1 == <<"k", "1">>
K2 == <<"k", "2">>
T1 == <<"t", "1">>
T2 == <<"t", "2">>
P1 == <<"p", "1">>
P2 == <<"p", "2">>
G  == <<"g">>
GU == <<"g", ":", "u">>
O1 == <<"o", "1">>
O2 == <<"o", "2">>
U  == <<"u">>
UU == <<"u", ":", "u">>
R1 == <<"r", "1">>
R2 == <<"r", "2">>

Keys       == {K1, K2}
ThingIDs   == {T1, T2}
ProfileIDs == {P1, P2}
GroupIDs   == {G, GU}
OrgIDs     == {O1, O2}
MemberIDs  == {U, UU}
Roles      == {R1, R2}

\* Total number of cached entries the sequential specification lets the
\* callers build up.
MaxEntries == 2

Empty == <<>>          \* the Go string ""
Nil == "nil"
ErrNotFound == "ErrNotFound"
Panic == "panic"

Structs == {"tcm", "ccm", "gcm"}
Threads == {"c1", "c2"}

----------------------------------------------------------------------------
(* Go map statements on a set of <<key, value>> pairs.                      *)

\* _, ok := m[k]
Has(m, k) == \E p \in m : p[1] = k

\* v := m[k], for a key that is present
Get(m, k) == (CHOOSE p \in m : p[1] = k)[2]

\* m[k] = v written as an insertion that leaves an older entry in place.
PutAccumulate(m, k, v) == m \cup {<<k, v>>}

\* A store that drops the entry when it already holds the value.
PutToggle(m, k, v) ==
    {p \in m : p[1] # k} \cup (IF <<k, v>> \in m THEN {} ELSE {<<k, v>>})

\* m[k] = v
Put(m, k, v) == {p \in m : p[1] # k} \cup {<<k, v>>}

\* A delete that leaves the entry in place.
DelNothing(m, k) == m

\* delete(m, k)
Del(m, k) == {p \in m : p[1] # k}

KeysOf(m) == {p[1] : p \in m}

----------------------------------------------------------------------------
(* fmt.Sprintf("%s:%s", groupID, memberID) and strings.Split(k, ":").       *)

\* A key that leaves the separator out when the member ID is "".
rKeyBare(groupID, memberID) ==
    IF memberID = <<>> THEN groupID ELSE groupID \o <<Sep>> \o memberID

rKey(groupID, memberID) == groupID \o <<Sep>> \o memberID

\* Index of the first separator of s, 0 when there is none.
RECURSIVE IndexFrom(_, _)
IndexFrom(s, i) ==
    IF i > Len(s) THEN 0
    ELSE IF s[i] = Sep THEN i
    ELSE IndexFrom(s, i + 1)

RECURSIVE Split(_)
Split(s) ==
    LET i == IndexFrom(s, 1) IN
    IF i = 0 THEN <<s>>
    ELSE <<SubSeq(s, 1, i - 1)>> \o Split(SubSeq(s, i + 1, Len(s)))

----------------------------------------------------------------------------
(* Calls and what they return.                                             *)

Call(name, args) == [name |-> name, args |-> args]

ThingOps   == {"Save", "ID", "Remove"}
GroupOps   == {"SaveGroup", "ViewGroup", "RemoveGroup"}
ProfileOps == {"ProfileSaveGroup", "ProfileViewGroup", "ProfileRemoveGroup"}
OrgOps     == {"SaveOrg", "ViewOrg", "RemoveOrg"}
RoleOps    == {"SaveRole", "ViewRole", "RemoveRole", "GroupMemberships"}

\* The map a method works on.
MapOf(name) ==
    IF name \in ThingOps THEN things
    ELSE IF name \in GroupOps THEN groups
    ELSE IF name \in ProfileOps THEN pgroups
    ELSE IF name \in OrgOps THEN orgs
    ELSE roles

\* The logical cache a method belongs to.
CacheOf(name) ==
    IF name \in ThingOps THEN "credential"
    ELSE IF name \in GroupOps THEN "thing-group"
    ELSE IF name \in ProfileOps THEN "profile-group"
    ELSE IF name \in OrgOps THEN "group-org"
    ELSE "role"

\* What the map held, when the call ran, under the key the call names:
\* <<v>>, or <<>> for no entry.  Remove names a value: <<id>> when some key
\* held it.  GroupMemberships names no key.
Held(name, args) ==
    IF name \in {"none", "GroupMemberships"} THEN <<>>
    ELSE IF name = "Remove"
    THEN (IF \E p \in things : p[2] = args[1] THEN <<args[1]>> ELSE <<>>)
    ELSE LET k == IF name \in RoleOps THEN args[1] \o <<Sep>> \o args[2]
                  ELSE args[1]
         IN  IF \E p \in MapOf(name) : p[1] = k
             THEN <<(CHOOSE p \in MapOf(name) : p[1] = k)[2]>>
             ELSE <<>>

NoCall ==
    [name |-> "none", args |-> <<>>, val |-> Empty, err |-> Nil, held |-> <<>>]

\* The handler of the call (name, args) returns (val, err).
Returns(name, args, val, err) ==
    last' = [name |-> name, args |-> args, val |-> val, err |-> err,
             held |-> Held(name, args)]

----------------------------------------------------------------------------
(* thingCacheMock.  Each handler is the code between mu.Lock() and the      *)
(* deferred mu.Unlock().                                                    *)

\* Save that stores only when the key is new.
SaveIfAbsent(key, id) ==
    /\ things' = IF Has(things, key) THEN things ELSE Put(things, key, id)
    /\ Returns("Save", <<key, id>>, Empty, Nil)
    /\ UNCHANGED <<groups, pgroups, orgs, roles>>

Save(key, id) ==
    /\ things' = Put(things, key, id)
    /\ Returns("Save", <<key, id>>, Empty, Nil)
    /\ UNCHANGED <<groups, pgroups, orgs, roles>>

\* ID that reads the map without the ok test: "" and no error on a miss.
IDNoError(key) ==
    /\ IF ~Has(things, key)
       THEN Returns("ID", <<key>>, Empty, Nil)
       ELSE Returns("ID", <<key>>, Get(things, key), Nil)
    /\ UNCHANGED <<things, groups, pgroups, orgs, roles>>

ID(key) ==
    /\ IF ~Has(things, key)
       THEN Returns("ID", <<key>>, Empty, ErrNotFound)
       ELSE Returns("ID", <<key>>, Get(things, key), Nil)
    /\ UNCHANGED <<things, groups, pgroups, orgs, roles>>

\* Remove that empties the map when some key holds the value.
RemoveClear(id) ==
    /\ things' = IF \E p \in things : p[2] = id THEN {} ELSE things
    /\ Returns("Remove", <<id>>, Empty, Nil)
    /\ UNCHANGED <<groups, pgroups, orgs, roles>>

\* Remove that also deletes the group link of the thing.
RemoveCascade(id) ==
    /\ IF \E p \in things : p[2] = id
       THEN \E p \in things : p[2] = id /\ things' = Del(things, p[1])
       ELSE things' = things
    /\ groups' = Del(groups, id)
    /\ Returns("Remove", <<id>>, Empty, Nil)
    /\ UNCHANGED <<pgroups, orgs, roles>>

\* The range loop visits the entries in an order Go leaves unspecified and
\* returns right after its first delete.
Remove(id) ==
    /\ IF \E p \in things : p[2] = id
       THEN \E p \in things : p[2] = id /\ things' = Del(things, p[1])
       ELSE things' = things
    /\ Returns("Remove", <<id>>, Empty, Nil)
    /\ UNCHANGED <<groups, pgroups, orgs, roles>>

SaveGroup(thingID, groupID) ==
    /\ groups' = Put(groups, thingID, groupID)
    /\ Returns("SaveGroup", <<thingID, groupID>>, Empty, Nil)
    /\ UNCHANGED <<things, pgroups, orgs, roles>>

\* ViewGroup that evicts the entry it returns.
ViewGroupEvict(thingID) ==
    /\ IF ~Has(groups, thingID)
       THEN Returns("ViewGroup", <<thingID>>, Empty, ErrNotFound)
       ELSE Returns("ViewGroup", <<thingID>>, Get(groups, thingID), Nil)
    /\ groups' = Del(groups, thingID)
    /\ UNCHANGED <<things, pgroups, orgs, roles>>

ViewGroup(thingID) ==
    /\ IF ~Has(groups, thingID)
       THEN Returns("ViewGroup", <<thingID>>, Empty, ErrNotFound)
       ELSE Returns("ViewGroup", <<thingID>>, Get(groups, thingID), Nil)
    /\ UNCHANGED <<things, groups, pgroups, orgs, roles>>

\* RemoveGroup that deletes every thing of the group the thing is in.
RemoveGroupByValue(thingID) ==
    /\ groups' = {p \in groups :
                    /\ p[1] # thingID
                    /\ Has(groups, thingID) => p[2] # Get(groups, thingID)}
    /\ Returns("RemoveGroup", <<thingID>>, Empty, Nil)
    /\ UNCHANGED <<things, pgroups, orgs, roles>>

RemoveGroup(thingID) ==
    /\ groups' = Del(groups, thingID)
    /\ Returns("RemoveGroup", <<thingID>>, Empty, Nil)
    /\ UNCHANGED <<things, pgroups, orgs, roles>>

----------------------------------------------------------------------------
(* profileCacheMock.                                                        *)

ProfileSaveGroup(profileID, groupID) ==
    /\ pgroups' = Put(pgroups, profileID, groupID)
    /\ Returns("ProfileSaveGroup", <<profileID, groupID>>, Empty, Nil)
    /\ UNCHANGED <<things, groups, orgs, roles>>

ProfileViewGroup(profileID) ==
    /\ IF ~Has(pgroups, profileID)
       THEN Returns("ProfileViewGroup", <<profileID>>, Empty, ErrNotFound)
       ELSE Returns("ProfileViewGroup", <<profileID>>, Get(pgroups, profileID), Nil)
    /\ UNCHANGED <<things, groups, pgroups, orgs, roles>>

ProfileRemoveGroup(profileID) ==
    /\ pgroups' = Del(pgroups, profileID)
    /\ Returns("ProfileRemoveGroup", <<profileID>>, Empty, Nil)
    /\ UNCHANGED <<things, groups, orgs, roles>>

----------------------------------------------------------------------------
(* groupCacheMock.                                                          *)

SaveOrg(groupID, orgID) ==
    /\ orgs' = Put(orgs, groupID, orgID)
    /\ Returns("SaveOrg", <<groupID, orgID>>, Empty, Nil)
    /\ UNCHANGED <<things, groups, pgroups, roles>>

\* ViewOrg that reads the map without the ok test: "" and no error on a miss.
ViewOrgNoError(groupID) ==
    /\ IF ~Has(orgs, groupID)
       THEN Returns("ViewOrg", <<groupID>>, Empty, Nil)
       ELSE Returns("ViewOrg", <<groupID>>, Get(orgs, groupID), Nil)
    /\ UNCHANGED <<things, groups, pgroups, orgs, roles>>

ViewOrg(groupID) ==
    /\ IF ~Has(orgs, groupID)
       THEN Returns("ViewOrg", <<groupID>>, Empty, ErrNotFound)
       ELSE Returns("ViewOrg", <<groupID>>, Get(orgs, groupID), Nil)
    /\ UNCHANGED <<things, groups, pgroups, orgs, roles>>

RemoveOrg(groupID) ==
    /\ orgs' = Del(orgs, groupID)
    /\ Returns("RemoveOrg", <<groupID>>, Empty, Nil)
    /\ UNCHANGED <<things, groups, pgroups, roles>>

SaveRole(groupID, memberID, role) ==
    /\ roles' = Put(roles, rKey(groupID, memberID), role)
    /\ Returns("SaveRole", <<groupID, memberID, role>>, Empty, Nil)
    /\ UNCHANGED <<things, groups, pgroups, orgs>>

ViewRole(groupID, memberID) ==
    /\ IF ~Has(roles, rKey(groupID, memberID))
       THEN Returns("ViewRole", <<groupID, memberID>>, Empty, ErrNotFound)
       ELSE Returns("ViewRole", <<groupID, memberID>>,
                    Get(roles, rKey(groupID, memberID)), Nil)
    /\ UNCHANGED <<things, groups, pgroups, orgs, roles>>

RemoveRole(groupID, memberID) ==
    /\ roles' = Del(roles, rKey(groupID, memberID))
    /\ Returns("RemoveRole", <<groupID, memberID>>, Empty, Nil)
    /\ UNCHANGED <<things, groups, pgroups, orgs>>

\* The orders in which a range loop may visit the keys of a map.
Orders(S) ==
    {f \in [1..Cardinality(S) -> S] :
        \A i, j \in 1..Cardinality(S) : i # j => f[i] # f[j]}

\* The loop body over the keys ks[i..]: parts[1] of the source is the second
\* part, parts[0] the first.
RECURSIVE Scan(_, _, _)
Scan(ks, i, memberID) ==
    IF i > Len(ks) THEN <<>>
    ELSE LET parts == Split(ks[i]) IN
         (IF parts[2] = memberID THEN <<parts[1]>> ELSE <<>>)
             \o Scan(ks, i + 1, memberID)

\* parts[1] is out of range for a key with no separator.
OutOfRange(m) == \E k \in KeysOf(m) : Len(Split(k)) < 2

GroupMemberships(memberID) ==
    /\ IF OutOfRange(roles)
       THEN Returns("GroupMemberships", <<memberID>>, <<>>, Panic)
       ELSE \E ks \in Orders(KeysOf(roles)) :
               Returns("GroupMemberships", <<memberID>>, Scan(ks, 1, memberID), Nil)
    /\ UNCHANGED <<things, groups, pgroups, orgs, roles>>

----------------------------------------------------------------------------
(* Dispatch, and the mutex each handler takes.                              *)

Handler(o) ==
    CASE o.name = "Save"               -> Save(o.args[1], o.args[2])
      [] o.name = "ID"                 -> ID(o.args[1])
      [] o.name = "Remove"             -> Remove(o.args[1])
      [] o.name = "SaveGroup"          -> SaveGroup(o.args[1], o.args[2])
      [] o.name = "ViewGroup"          -> ViewGroup(o.args[1])
      [] o.name = "RemoveGroup"        -> RemoveGroup(o.args[1])
      [] o.name = "ProfileSaveGroup"   -> ProfileSaveGroup(o.args[1], o.args[2])
      [] o.name = "ProfileViewGroup"   -> ProfileViewGroup(o.args[1])
      [] o.name = "ProfileRemoveGroup" -> ProfileRemoveGroup(o.args[1])
      [] o.name = "SaveOrg"            -> SaveOrg(o.args[1], o.args[2])
      [] o.name = "ViewOrg"            -> ViewOrg(o.args[1])
      [] o.name = "RemoveOrg"          -> RemoveOrg(o.args[1])
      [] o.name = "SaveRole"           -> SaveRole(o.args[1], o.args[2], o.args[3])
      [] o.name = "ViewRole"           -> ViewRole(o.args[1], o.args[2])
      [] o.name = "RemoveRole"         -> RemoveRole(o.args[1], o.args[2])
      [] o.name = "GroupMemberships"   -> GroupMemberships(o.args[1])

\* One mutex shared by the three structs.
MuShared(name) == "tcm"

\* tcm.mu, ccm.mu or gcm.mu: the receiver's mutex.
MuOf(name) ==
    IF name \in ThingOps \cup GroupOps THEN "tcm"
    ELSE IF name \in ProfileOps THEN "ccm"
    ELSE "gcm"

----------------------------------------------------------------------------
\* The keyed-removal caches, by the name of the map.
KeyedCaches == {"thing-group", "profile-group", "group-org", "role"}

NoTrack ==
    [gone |-> [c \in KeyedCaches |-> "no"], since |-> [t \in Threads |-> "no"]]

\* No composed lookup yet; the maps have been empty.
NoView ==
    [got |-> <<>>, seen |-> {<<{}, {}, {}, {}, {}>>}, cut |-> FALSE, done |-> 0]

(* Init: the state after NewThingCache, NewProfileCache, NewGroupCache.     *)

Init ==
    /\ things = {}
    /\ groups = {}
    /\ pgroups = {}
    /\ orgs = {}
    /\ roles = {}
    /\ mu = [s \in Structs |-> FALSE]
    /\ pc = [t \in Threads |-> "idle"]
    /\ op = [t \in Threads |-> Call("none", <<>>)]
    /\ last = NoCall
    /\ assigned = {}
    /\ track = NoTrack
    /\ view = NoView

----------------------------------------------------------------------------
(* Spec: one caller at a time.  A step is a whole call: Lock, the handler,  *)
(* the deferred Unlock.                                                     *)

TotalEntries ==
    Cardinality(things) + Cardinality(groups) + Cardinality(pgroups)
        + Cardinality(orgs) + Cardinality(roles)

\* The callers stop adding keys at MaxEntries entries; they may still
\* overwrite.
Room(m, k) == Has(m, k) \/ TotalEntries < MaxEntries

\* The same limit on the assignments the callers make.
Noted(groupID, memberID) ==
    Has(assigned, <<groupID, memberID>>) \/ Cardinality(assigned) < MaxEntries

\* What the call does to the callers' own record of the assignments.
Record(o) ==
    assigned' =
        IF o.name = "SaveRole"
        THEN Put(assigned, <<o.args[1], o.args[2]>>, o.args[3])
        ELSE IF o.name = "RemoveRole"
        THEN Del(assigned, <<o.args[1], o.args[2]>>)
        ELSE assigned

\* mu.Lock() of struct s returns at once: nobody else is in a call.
Free(s) == (\A t \in Threads : pc[t] = "idle") /\ ~mu[s]

\* The call returned, the mutex is free again.
Done ==
    /\ Record([name |-> last'.name, args |-> last'.args])
    /\ UNCHANGED <<mu, pc, op, track, view>>

DoSave ==
    \E key \in Keys, id \in ThingIDs :
        /\ Room(things, key)
        /\ Free("tcm")
        /\ Save(key, id)
        /\ Done
DoID ==
    \E key \in Keys :
        /\ Free("tcm")
        /\ ID(key)
        /\ Done
DoRemove ==
    \E id \in ThingIDs :
        /\ Free("tcm")
        /\ Remove(id)
        /\ Done
DoSaveGroup ==
    \E thingID \in ThingIDs, groupID \in GroupIDs :
        /\ Room(groups, thingID)
        /\ Free("tcm")
        /\ SaveGroup(thingID, groupID)
        /\ Done
DoViewGroup ==
    \E thingID \in ThingIDs :
        /\ Free("tcm")
        /\ ViewGroup(thingID)
        /\ Done
DoRemoveGroup ==
    \E thingID \in ThingIDs :
        /\ Free("tcm")
        /\ RemoveGroup(thingID)
        /\ Done
DoProfileSaveGroup ==
    \E profileID \in ProfileIDs, groupID \in GroupIDs :
        /\ Room(pgroups, profileID)
        /\ Free("ccm")
        /\ ProfileSaveGroup(profileID, groupID)
        /\ Done
DoProfileViewGroup ==
    \E profileID \in ProfileIDs :
        /\ Free("ccm")
        /\ ProfileViewGroup(profileID)
        /\ Done
DoProfileRemoveGroup ==
    \E profileID \in ProfileIDs :
        /\ Free("ccm")
        /\ ProfileRemoveGroup(profileID)
        /\ Done
DoSaveOrg ==
    \E groupID \in GroupIDs, orgID \in OrgIDs :
        /\ Room(orgs, groupID)
        /\ Free("gcm")
        /\ SaveOrg(groupID, orgID)
        /\ Done
DoViewOrg ==
    \E groupID \in GroupIDs :
        /\ Free("gcm")
        /\ ViewOrg(groupID)
        /\ Done
DoRemoveOrg ==
    \E groupID \in GroupIDs :
        /\ Free("gcm")
        /\ RemoveOrg(groupID)
        /\ Done
DoSaveRole ==
    \E groupID \in GroupIDs, memberID \in MemberIDs, role \in Roles :
        /\ Room(roles, rKey(groupID, memberID))
        /\ Noted(groupID, memberID)
        /\ Free("gcm")
        /\ SaveRole(groupID, memberID, role)
        /\ Done
DoViewRole ==
    \E groupID \in GroupIDs, memberID \in MemberIDs :
        /\ Free("gcm")
        /\ ViewRole(groupID, memberID)
        /\ Done
DoRemoveRole ==
    \E groupID \in GroupIDs, memberID \in MemberIDs :
        /\ Free("gcm")
        /\ RemoveRole(groupID, memberID)
        /\ Done
DoGroupMemberships ==
    \E memberID \in MemberIDs :
        /\ Free("gcm")
        /\ GroupMemberships(memberID)
        /\ Done

Next ==
    \/ DoSave
    \/ DoID
    \/ DoRemove
    \/ DoSaveGroup
    \/ DoViewGroup
    \/ DoRemoveGroup
    \/ DoProfileSaveGroup
    \/ DoProfileViewGroup
    \/ DoProfileRemoveGroup
    \/ DoSaveOrg
    \/ DoViewOrg
    \/ DoRemoveOrg
    \/ DoSaveRole
    \/ DoViewRole
    \/ DoRemoveRole
    \/ DoGroupMemberships

Spec == Init /\ [][Next]_vars

----------------------------------------------------------------------------
(* RoleSpec: the role cache, one caller at a time, with identifiers that     *)
(* may be the empty string.                                                 *)

AnyGroupIDs  == GroupIDs \cup {Empty}
AnyMemberIDs == MemberIDs \cup {Empty}

AnySaveRole ==
    \E groupID \in AnyGroupIDs, memberID \in AnyMemberIDs, role \in Roles :
        /\ Room(roles, rKey(groupID, memberID))
        /\ Noted(groupID, memberID)
        /\ Free("gcm")
        /\ SaveRole(groupID, memberID, role)
        /\ Done
AnyViewRole ==
    \E groupID \in AnyGroupIDs, memberID \in AnyMemberIDs :
        /\ Free("gcm")
        /\ ViewRole(groupID, memberID)
        /\ Done
AnyRemoveRole ==
    \E groupID \in AnyGroupIDs, memberID \in AnyMemberIDs :
        /\ Free("gcm")
        /\ RemoveRole(groupID, memberID)
        /\ Done
AnyGroupMemberships ==
    \E memberID \in AnyMemberIDs :
        /\ Free("gcm")
        /\ GroupMemberships(memberID)
        /\ Done

RoleNext ==
    \/ AnySaveRole
    \/ AnyViewRole
    \/ AnyRemoveRole
    \/ AnyGroupMemberships

RoleSpec == Init /\ [][RoleNext]_vars

----------------------------------------------------------------------------
(* ConcSpec: concurrent callers.  A call is three steps: the caller enters  *)
(* the method, mu.Lock() returns, and the handler runs to its return, where *)
(* the deferred mu.Unlock() releases the mutex.                             *)

\* The calls the concurrent callers make: every method, on one entry of each
\* map.
ConcCalls ==
    {Call("Save", <<K1, T1>>), Call("ID", <<K1>>), Call("Remove", <<T1>>),
     Call("SaveGroup", <<T1, G>>), Call("ViewGroup", <<T1>>),
     Call("RemoveGroup", <<T1>>),
     Call("ProfileSaveGroup", <<P1, G>>), Call("ProfileViewGroup", <<P1>>),
     Call("ProfileRemoveGroup", <<P1>>),
     Call("SaveOrg", <<G, O1>>), Call("ViewOrg", <<G>>), Call("RemoveOrg", <<G>>),
     Call("SaveRole", <<G, U, R1>>), Call("ViewRole", <<G, U>>),
     Call("RemoveRole", <<G, U>>), Call("GroupMemberships", <<U>>)}

\* A caller enters a method.
Entering(t, calls) ==
    /\ pc[t] = "idle"
    /\ \E o \in calls : op' = [op EXCEPT ![t] = o]
    /\ pc' = [pc EXCEPT ![t] = "lock"]
    /\ UNCHANGED <<things, groups, pgroups, orgs, roles, mu, last, assigned>>

\* mu.Lock(): returns once the mutex is free, and takes it.
Locking(t) ==
    /\ pc[t] = "lock"
    /\ ~mu[MuOf(op[t].name)]
    /\ mu' = [mu EXCEPT ![MuOf(op[t].name)] = TRUE]
    /\ pc' = [pc EXCEPT ![t] = "crit"]
    /\ UNCHANGED <<things, groups, pgroups, orgs, roles, op, last, assigned>>

\* The handler, then the deferred mu.Unlock().
Returning(t) ==
    /\ pc[t] = "crit"
    /\ Handler(op[t])
    /\ mu' = [mu EXCEPT ![MuOf(op[t].name)] = FALSE]
    /\ pc' = [pc EXCEPT ![t] = "idle"]
    /\ Record(op[t])
    /\ op' = [op EXCEPT ![t] = Call("none", <<>>)]

Enter(t) == Entering(t, ConcCalls) /\ UNCHANGED <<track, view>>

\* A Lock that does not wait for the mutex.
LockNoWait(t) ==
    /\ pc[t] = "lock"
    /\ mu' = [mu EXCEPT ![MuOf(op[t].name)] = TRUE]
    /\ pc' = [pc EXCEPT ![t] = "crit"]
    /\ UNCHANGED <<things, groups, pgroups, orgs, roles, op, last, assigned,
                   track, view>>

Lock(t) == Locking(t) /\ UNCHANGED <<track, view>>

\* A handler that unlocks before its last return only: the NotFound return
\* leaves the mutex locked.
ReturnNoDefer(t) ==
    /\ pc[t] = "crit"
    /\ Handler(op[t])
    /\ mu' = IF last'.err = ErrNotFound THEN mu
             ELSE [mu EXCEPT ![MuOf(op[t].name)] = FALSE]
    /\ pc' = [pc EXCEPT ![t] = "idle"]
    /\ Record(op[t])
    /\ op' = [op EXCEPT ![t] = Call("none", <<>>)]
    /\ UNCHANGED <<track, view>>

Return(t) == Returning(t) /\ UNCHANGED <<track, view>>

ConcNext == \E t \in Threads : Enter(t) \/ Lock(t) \/ Return(t)

ConcSpec == Init /\ [][ConcNext]_vars

\* FairSpec: the concurrent callers under the scheduling Go gives them.  A
\* goroutine inside a handler keeps running, so its return is weakly fair.  A
\* goroutine blocked in mu.Lock() is woken whenever the mutex is released and
\* sync.Mutex hands the mutex to a waiter that has waited long (starvation
\* mode), so a Lock that is enabled again and again is taken: strong fairness.
FairSpec ==
    /\ ConcSpec
    /\ \A t \in Threads : WF_vars(Return(t)) /\ SF_vars(Lock(t))

----------------------------------------------------------------------------
(* The keyed-removal caches under concurrent callers, with the record of    *)
(* which removals have returned.  Every call of a cache names the same      *)
(* stored key: the two role pairs are both stored under "g:u:u".  The       *)
(* profile cache, whose methods are those of the thing-group cache on a     *)
(* struct of its own, is left out of the calls.                             *)

TrackCalls ==
    {Call("SaveGroup", <<T1, G>>), Call("ViewGroup", <<T1>>),
     Call("RemoveGroup", <<T1>>),
     Call("SaveOrg", <<G, O1>>), Call("ViewOrg", <<G>>), Call("RemoveOrg", <<G>>),
     Call("SaveRole", <<GU, U, R1>>), Call("SaveRole", <<G, UU, R2>>),
     Call("ViewRole", <<GU, U>>), Call("RemoveRole", <<GU, U>>)}

KeyedSaves == {"SaveGroup", "ProfileSaveGroup", "SaveOrg", "SaveRole"}
KeyedLookups == {"ViewGroup", "ProfileViewGroup", "ViewOrg", "ViewRole"}
KeyedRemoves == {"RemoveGroup", "ProfileRemoveGroup", "RemoveOrg", "RemoveRole"}

\* Some caller other than t is inside a save of cache c: it has entered the
\* method and has not returned.
SaveInProgress(c, t) ==
    \E u \in Threads \ {t} :
        pc[u] # "idle" /\ op[u].name \in KeyedSaves /\ CacheOf(op[u].name) = c

\* track.gone[c]: "clean" when a removal of c's key has returned with no save
\* of that key in progress, "pending" when it returned while a save was in
\* progress, and "no" from the moment a save of that key begins.
\* track.since[t]: what track.gone said of the key when t's lookup began; a
\* save that begins while the lookup is running sets it back to "no".
TEnter(t) ==
    /\ Entering(t, TrackCalls)
    /\ UNCHANGED view
    /\ LET n == op'[t].name
           c == CacheOf(n)
       IN  track' =
             IF n \in KeyedSaves
             THEN [gone |-> [track.gone EXCEPT ![c] = "no"],
                   since |-> [u \in Threads |->
                                IF /\ u # t
                                   /\ pc[u] # "idle"
                                   /\ op[u].name \in KeyedLookups
                                   /\ CacheOf(op[u].name) = c
                                THEN "no" ELSE track.since[u]]]
             ELSE [track EXCEPT !.since[t] =
                                  IF n \in KeyedLookups THEN track.gone[c]
                                  ELSE "no"]

TLock(t) == Locking(t) /\ UNCHANGED <<track, view>>

TReturn(t) ==
    /\ Returning(t)
    /\ UNCHANGED view
    /\ LET n == op[t].name
           c == CacheOf(n)
       IN  track' =
             IF n \in KeyedRemoves
             THEN [track EXCEPT !.gone[c] =
                                  IF SaveInProgress(c, t) THEN "pending"
                                  ELSE "clean"]
             ELSE track

TrackNext == \E t \in Threads : TEnter(t) \/ TLock(t) \/ TReturn(t)

TrackSpec == Init /\ [][TrackNext]_vars

----------------------------------------------------------------------------
(* A composed lookup beside a writer.  The reader resolves a key to its     *)
(* thing, the thing to its group, the group to its org and to the role of   *)
(* a member, each a call of its own; the writer fills the caches, then      *)
(* moves the thing and the group and removes the role and the thing.        *)

Reader == "c1"
Writer == "c2"

WriterCalls ==
    <<Call("Save", <<K1, T1>>), Call("SaveGroup", <<T1, G>>),
      Call("SaveOrg", <<G, O1>>), Call("SaveRole", <<G, U, R1>>),
      Call("SaveGroup", <<T1, GU>>), Call("SaveOrg", <<G, O2>>),
      Call("RemoveRole", <<G, U>>), Call("Remove", <<T1>>)>>

ComposedNames == <<"ID", "ViewGroup", "ViewOrg", "ViewRole">>

\* The next call of a composed lookup that has the results got.
ComposedCall(got) ==
    CASE Len(got) = 0 -> Call("ID", <<K1>>)
      [] Len(got) = 1 -> Call("ViewGroup", <<got[1]>>)
      [] Len(got) = 2 -> Call("ViewOrg", <<got[2]>>)
      [] OTHER        -> Call("ViewRole", <<got[2], U>>)

\* The reader goes on with its lookup, or starts a new one after a complete
\* one; the writer makes its next call.
LEnter(t) ==
    /\ IF t = Reader
       THEN LET got == IF Len(view.got) = Len(ComposedNames) THEN <<>>
                       ELSE view.got
            IN  /\ Entering(t, {ComposedCall(got)})
                /\ view' = [view EXCEPT !.got = got,
                                        !.cut = IF got = <<>> THEN FALSE ELSE @]
       ELSE /\ view.done < Len(WriterCalls)
            /\ Entering(t, {WriterCalls[view.done + 1]})
            /\ view' = [view EXCEPT !.done = @ + 1]
    /\ UNCHANGED track

LLock(t) == Locking(t) /\ UNCHANGED <<track, view>>

\* The reader keeps the result, and gives up on NotFound.  view.cut: a call
\* of the writer has returned after the first and before the last result.
LReturn(t) ==
    /\ Returning(t)
    /\ view' =
         IF t = Reader
         THEN IF last'.err = Nil
              THEN [view EXCEPT !.got = Append(@, last'.val)]
              ELSE [view EXCEPT !.got = <<>>, !.cut = FALSE]
         ELSE [view EXCEPT !.seen = @ \cup {maps'},
                           !.cut = @ \/ (/\ view.got # <<>>
                                         /\ Len(view.got) < Len(ComposedNames))]
    /\ UNCHANGED track

LookupNext == \E t \in Threads : LEnter(t) \/ LLock(t) \/ LReturn(t)

LookupSpec == Init /\ [][LookupNext]_vars

----------------------------------------------------------------------------
(* Properties.                                                              *)

\* The save method and the point lookup of each key-to-value cache.
SaveLookup ==
    {<<"Save", "ID">>, <<"SaveGroup", "ViewGroup">>,
     <<"ProfileSaveGroup", "ProfileViewGroup">>, <<"SaveOrg", "ViewOrg">>}

SaveNames ==
    {"Save", "SaveGroup", "ProfileSaveGroup", "SaveOrg", "SaveRole"}

\* The arguments of a save that name the key, and the value it stores.
KeyArgs(c) == SubSeq(c.args, 1, Len(c.args) - 1)
SavedVal(c) == c.args[Len(c.args)]

\* The key of the Go map a call with key arguments ka addresses.
StoredKey(name, ka) ==
    IF name \in RoleOps THEN ka[1] \o <<Sep>> \o ka[2] ELSE ka[1]

\* The map a method works on, as the step leaves it.
MapAfter(name) ==
    IF name \in ThingOps THEN things'
    ELSE IF name \in GroupOps THEN groups'
    ELSE IF name \in ProfileOps THEN pgroups'
    ELSE IF name \in OrgOps THEN orgs'
    ELSE roles'

\* C1: in each key-to-value cache, from any reachable state, a Save(k, v)
\* followed at once by Resolve(k) returns v and no error.
C1_SaveThenResolve ==
    [][\A sl \in SaveLookup :
          (last.name = sl[1] /\ last'.name = sl[2] /\ last'.args = KeyArgs(last))
              => (last'.val = SavedVal(last) /\ last'.err = Nil)]_vars

\* A lookup that returned the saved value, with another entry beside it.
C1_Witness ==
    /\ last.name = "ViewGroup"
    /\ last.args = <<T2>>
    /\ last.val = GU
    /\ last.err = Nil
    /\ Cardinality(groups) = 2

Functional(m) == \A p, q \in m : p[1] = q[1] => p = q

\* C2: Save overwrites and does not accumulate.  (a) Every key of every map
\* has at most one value; (b) after a save the map holds, under the saved
\* key, the saved value and nothing else; (c) when a save replaced a
\* different value id1 (last.held) by id2, the lookup that follows returns
\* id2.
C2_Overwrite ==
    /\ [](\A m \in {things, groups, pgroups, orgs, roles} : Functional(m))
    /\ [][last'.name \in SaveNames =>
            {p \in MapAfter(last'.name) :
                p[1] = StoredKey(last'.name, KeyArgs(last'))}
              = {<<StoredKey(last'.name, KeyArgs(last')), SavedVal(last')>>}]_vars
    /\ [][\A sl \in SaveLookup \cup {<<"SaveRole", "ViewRole">>} :
            (/\ last.name = sl[1]
             /\ last.held # <<>>
             /\ last.held # <<SavedVal(last)>>
             /\ last'.name = sl[2]
             /\ last'.args = KeyArgs(last))
                => (last'.val = SavedVal(last) /\ last'.err = Nil)]_vars

\* A save has just replaced a different value.
C2_Witness ==
    /\ last.name = "SaveRole"
    /\ last.args = <<G, UU, R2>>
    /\ last.held = <<R1>>
    /\ roles = {<<rKey(G, UU), R2>>}

\* C3: after Remove(deviceID) returns, no key of the credential map is mapped
\* to deviceID (so that after Save(k1, id), Save(k2, id), Remove(id) both
\* ID(k1) and ID(k2) fail with NotFound).
C3_RemoveEvery ==
    last.name = "Remove" => \A p \in things : p[2] # last.args[1]

\* The elements of a list.
Elems(l) == {l[i] : i \in 1..Len(l)}

\* The groups in which the callers' record has an assignment for member.
GroupsOf(member) == {p[1][1] : p \in {q \in assigned : q[1][2] = member}}

\* C4: GroupMemberships(member) returns exactly the group IDs g for which an
\* assignment (g, member) is stored, whatever the role.
C4_Memberships ==
    last.name = "GroupMemberships" =>
        (last.err = Nil /\ Elems(last.val) = GroupsOf(last.args[1]))

\* C5: ViewRole(g, m) returns the role of the latest SaveRole(g, m, .) not
\* followed by RemoveRole(g, m), and NotFound when there is none: the role
\* cache behaves as the map keyed by the pair (g, m).
C5_RefinesPairMap ==
    last.name = "ViewRole" =>
        IF \E p \in assigned : p[1] = last.args
        THEN <<last.args, last.val>> \in assigned /\ last.err = Nil
        ELSE last.val = Empty /\ last.err = ErrNotFound

LookupNames == {"ID", "ViewGroup", "ProfileViewGroup", "ViewOrg", "ViewRole"}

\* C6: a point lookup returns NotFound exactly when the map holds no entry
\* under the requested key when the lookup runs; with NotFound it returns "",
\* and for a key that is present the stored value and no error.  For ViewRole
\* the requested key is the stored key rKey(groupID, memberID).
C6_NotFoundIffAbsent ==
    [][\A name \in LookupNames :
          last'.name = name =>
            LET k == StoredKey(name, last'.args)
                present == \E p \in MapOf(name) : p[1] = k
            IN  /\ last'.err = ErrNotFound <=> ~present
                /\ last'.err = ErrNotFound => last'.val = Empty
                /\ present => (<<k, last'.val>> \in MapOf(name) /\ last'.err = Nil)]_vars

\* A lookup has missed while its map holds another entry.
C6_Witness ==
    /\ last.name = "ViewRole"
    /\ last.err = ErrNotFound
    /\ last.val = Empty
    /\ last.held = <<>>
    /\ roles # {}

Mutators ==
    SaveNames \cup {"Remove", "RemoveGroup", "ProfileRemoveGroup", "RemoveOrg",
                    "RemoveRole"}

\* C7: every mutating operation returns no error, and GroupMemberships
\* returns no error: for a member with no assignment it returns the empty
\* list.
C7_NoError ==
    /\ last.name \in Mutators \cup {"GroupMemberships"} => last.err = Nil
    /\ (last.name = "GroupMemberships" /\ GroupsOf(last.args[1]) = {})
          => last.val = <<>>

\* C8: a Remove whose target is absent returns no error and leaves every map
\* as it was: Remove(id) with no entry of value id, RemoveGroup and RemoveOrg
\* on an absent key, RemoveRole on a pair with no assignment.
C8_AbsentRemoveNoOp ==
    [][LET c == last'
           absent ==
               \/ c.name = "Remove" /\ \A p \in things : p[2] # c.args[1]
               \/ c.name = "RemoveGroup" /\ \A p \in groups : p[1] # c.args[1]
               \/ c.name = "ProfileRemoveGroup"
                    /\ \A p \in pgroups : p[1] # c.args[1]
               \/ c.name = "RemoveOrg" /\ \A p \in orgs : p[1] # c.args[1]
               \/ c.name = "RemoveRole" /\ \A p \in assigned : p[1] # c.args
       IN  absent => (c.err = Nil /\ maps' = maps)]_vars

----------------------------------------------------------------------------
(* Properties of the concurrent callers.                                    *)

\* The struct a method is declared on.
ReceiverOf(name) ==
    IF name \in ThingOps \cup GroupOps THEN "thingCacheMock"
    ELSE IF name \in ProfileOps THEN "profileCacheMock"
    ELSE "groupCacheMock"

C10_MutualExclusion ==
    /\ \A t, u \in Threads :
          (t # u /\ pc[t] = "crit" /\ pc[u] = "crit")
              => ReceiverOf(op[t].name) # ReceiverOf(op[u].name)
    /\ \A t \in Threads : pc[t] = "crit" => mu[MuOf(op[t].name)]

\* A reader is inside, a writer of the same map waits.
C10_Witness ==
    /\ pc["c1"] = "crit"
    /\ op["c1"].name = "ID"
    /\ pc["c2"] = "lock"
    /\ op["c2"].name = "Save"
    /\ ~ENABLED Lock("c2")

\* C11: under fair scheduling every call that was started returns; a mutex is
\* locked only while a caller is inside a handler of its struct, so every
\* return path has released it; and a caller that has not returned can take
\* a step, or the caller holding its mutex can.
C11_NoBlocking ==
    /\ [](\A s \in Structs :
            mu[s] <=> \E t \in Threads : pc[t] = "crit" /\ MuOf(op[t].name) = s)
    /\ [](\A t \in Threads :
            pc[t] # "idle" =>
                \/ ENABLED Lock(t)
                \/ ENABLED Return(t)
                \/ \E u \in Threads \ {t} : ENABLED Return(u))
    /\ \A t \in Threads : (pc[t] # "idle") ~> (pc[t] = "idle")

\* A lookup has returned NotFound while the other caller waits for the same
\* mutex, which is free again.
C11_Witness ==
    /\ last.name = "ViewGroup"
    /\ last.err = ErrNotFound
    /\ pc["c1"] = "idle"
    /\ pc["c2"] = "lock"
    /\ op["c2"].name = "Remove"
    /\ ~mu["tcm"]

\* A step in which caller t returns from a lookup of a keyed-removal cache.
LookupReturns(t) ==
    pc[t] = "crit" /\ pc'[t] = "idle" /\ op[t].name \in KeyedLookups

C13_NoDuplicates ==
    (last.name = "GroupMemberships" /\ last.err = Nil) =>
        \A i, j \in 1..Len(last.val) : i # j => last.val[i] # last.val[j]

\* C14: two different pairs (groupID, memberID) the callers have assigned
\* never have the same stored key, and the parts the membership scan takes
\* from the key of a saved assignment are its groupID and its memberID.
C14_KeyUnambiguous ==
    /\ \A p, q \in assigned :
           p[1] # q[1] => rKey(p[1][1], p[1][2]) # rKey(q[1][1], q[1][2])
    /\ last.name = "SaveRole" =>
           LET parts == Split(rKey(last.args[1], last.args[2]))
           IN  parts[1] = last.args[1] /\ parts[2] = last.args[2]

ReadNames == LookupNames \cup {"GroupMemberships"}

\* C15: every read (ID, ViewGroup of a thing or a profile, ViewOrg, ViewRole,
\* GroupMemberships), hit or miss, leaves every map as it was, and every step
\* that changes a map is the Save or the Remove of a caller.
C15_OnlySaveRemove ==
    [][/\ last'.name \in ReadNames => maps' = maps
       /\ maps' # maps => last'.name \in Mutators]_vars

\* A lookup has hit and the caches hold as many entries as the callers make.
C15_Witness ==
    /\ last.name = "ViewGroup" /\ last.err = Nil
    /\ TotalEntries = MaxEntries

\* C16: RemoveGroup(childID) of a thing or a profile and RemoveOrg(groupID)
\* leave in their map exactly the entries of the other keys, those with the
\* value of the removed entry included.
C16_ExactKey ==
    [][\A name \in {"RemoveGroup", "ProfileRemoveGroup", "RemoveOrg"} :
          last'.name = name =>
            MapAfter(name) = {p \in MapOf(name) : p[1] # last'.args[1]}]_vars

\* RemoveGroup has deleted the entry of its key and another thing is still
\* in the same group.
C16_Witness ==
    /\ last.name = "RemoveGroup" /\ last.held # <<>>
    /\ ~Has(groups, last.args[1])
    /\ \E p \in groups : p[2] = last.held[1]

\* C17: a save that follows the same save (same key, same value) changes no
\* map, and both return no error.
C17_Idempotent ==
    [][\A name \in SaveNames :
          (last.name = name /\ last'.name = name /\ last'.args = last.args)
              => (maps' = maps /\ last.err = Nil /\ last'.err = Nil)]_vars

\* A save has run on a map that held its value under its key since an
\* earlier save, and the entry is still there.
C17_Witness ==
    /\ last.name = "SaveGroup" /\ last.held = <<SavedVal(last)>>
    /\ <<last.args[1], last.args[2]>> \in groups

\* C19: Remove(deviceID) leaves every entry of another device ID in place.
C19_OtherValuesKept ==
    [][last'.name = "Remove" =>
          \A p \in things : p[2] # last'.args[1] => p \in things']_vars

\* Remove has deleted an entry of its device and a key of another device is
\* still mapped.
C19_Witness ==
    /\ last.name = "Remove" /\ last.held # <<>>
    /\ \A p \in things : p[2] # last.args[1]
    /\ things # {}

\* C20: the two maps of a struct are independent.  The credential methods
\* leave thing->group as it was and the thing->group methods leave the
\* credential map as it was; the group->org methods leave the roles as they
\* were and the role methods leave group->org as it was.
C20_MapsIndependent ==
    [][/\ last'.name \in ThingOps => groups' = groups
       /\ last'.name \in GroupOps => things' = things
       /\ last'.name \in OrgOps => roles' = roles
       /\ last'.name \in RoleOps => orgs' = orgs]_vars

\* Remove(thingID) has deleted the key of a thing whose group link is still
\* cached.
C20_Witness ==
    /\ last.name = "Remove" /\ last.held # <<>>
    /\ things = {}
    /\ Has(groups, last.args[1])

\* Result i of the composed lookup is an entry of the maps s.
Fact(s, got, i) ==
    CASE i = 1 -> <<K1, got[1]>> \in s[1]
      [] i = 2 -> <<got[1], got[2]>> \in s[2]
      [] i = 3 -> <<got[2], got[3]>> \in s[4]
      [] OTHER -> <<rKey(got[2], U), got[4]>> \in s[5]

\* The maps s hold every result of the composed lookup.
Together(s, got) == \A i \in 1..Len(got) : Fact(s, got, i)

\* C18: each result of a composed lookup was an entry of its map at some
\* moment, and the results were all cached at one moment unless a call of
\* the writer returned between the first and the last of them; the reader
\* holds no mutex between its calls.
C18_MixedOnlyWhenInterleaved ==
    /\ \A i \in 1..Len(view.got) : \E s \in view.seen : Fact(s, view.got, i)
    /\ ~view.cut => \E s \in view.seen : Together(s, view.got)
    /\ pc[Reader] # "crit" => \A s \in Structs : mu[s] => pc[Writer] = "crit"

\* A complete composed lookup whose results were never cached together.
C18_Witness ==
    /\ Len(view.got) = Len(ComposedNames)
    /\ pc[Reader] = "idle"
    /\ view.cut
    /\ \A s \in view.seen : ~Together(s, view.got)

\* The string s holds the separator.
HasSep(s) == \E i \in 1..Len(s) : s[i] = Sep

\* C21: every key of the role map holds ':' and splits into two parts or
\* more, whatever the identifiers, the empty string included; the scan of
\* GroupMemberships reads no part out of range and the call never panics.
C21_RoleKeysSplit ==
    /\ \A k \in KeysOf(roles) : HasSep(k) /\ Len(Split(k)) >= 2
    /\ ~OutOfRange(roles)
    /\ last.name = "GroupMemberships" => last.err = Nil

\* GroupMemberships("") has scanned the key ":" of an assignment whose group
\* and member are both "", and has returned the group "".
C21_Witness ==
    /\ last.name = "GroupMemberships" /\ last.args = <<Empty>>
    /\ last.err = Nil /\ last.val = <<Empty>>
    /\ KeysOf(roles) = {<<Sep>>}

====
